---- MODULE Spec2Model ----
(***************************************************************************)
(* A model of exprparse::Expression<T> (single-header expression parser).  *)
(*                                                                         *)
(* Text is a sequence of one-character strings.  Positions are 1-based:    *)
(* the iterator pair (begin, end) of the code is the pair of positions     *)
(* (begin, end) with the span made of the characters begin .. end-1.       *)
(* Values of the floating-point type T are modelled as exact rationals     *)
(* <<numerator, denominator>> in lowest terms with a positive denominator. *)
(***************************************************************************)
EXTENDS Integers, Sequences, FiniteSets, TLC

\* ------------------------------------------------------------------------
\* Status codes (enum Status)
\* ------------------------------------------------------------------------
Success == "Success"
Error_Variable_Already_Registered == "Error_Variable_Already_Registered"
Error_Function_Already_Registered == "Error_Function_Already_Registered"
Error_Variable_Function_Name_Clash == "Error_Variable_Function_Name_Clash"
Error_Not_Compiled == "Error_Not_Compiled"
Error_Division_By_Zero == "Error_Division_By_Zero"
Error_Unregistered_Symbol == "Error_Unregistered_Symbol"
Error_Syntax_Error == "Error_Syntax_Error"
Error_Unknown == "Error_Unknown"

\* ------------------------------------------------------------------------
\* The numeric type T, as exact rationals
\* ------------------------------------------------------------------------
Abs(n) == IF n < 0 THEN -n ELSE n

RECURSIVE GCD(_, _)
GCD(a, b) == IF b = 0 THEN a ELSE GCD(b, a % b)

\* n/d in lowest terms, d # 0
Rat(n, d) ==
    LET sn == IF d < 0 THEN -n ELSE n
        sd == Abs(d)
        g  == GCD(Abs(sn), sd)
    IN  <<sn \div g, sd \div g>>

Zero == <<0, 1>>
FromInt(n) == <<n, 1>>

RAdd(a, b) == Rat(a[1] * b[2] + b[1] * a[2], a[2] * b[2])
RSub(a, b) == Rat(a[1] * b[2] - b[1] * a[2], a[2] * b[2])
RMul(a, b) == Rat(a[1] * b[1], a[2] * b[2])
\* only used with b # Zero
RDiv(a, b) == Rat(a[1] * b[2], a[2] * b[1])

\* ------------------------------------------------------------------------
\* Characters
\* ------------------------------------------------------------------------
\* the value of a read that is neither a bracket, an operator, a digit nor
\* a letter (the string terminator)
NUL == "NUL"

\* the horizontal tab
TAB == "\t"

\* the characters std::isspace holds for, among those of the model
Whitespace == {" ", TAB}

Digits == {"0", "1", "2", "3", "4", "5", "6", "7", "8", "9"}

DigitVal(c) ==
    CASE c = "0" -> 0 [] c = "1" -> 1 [] c = "2" -> 2 [] c = "3" -> 3
      [] c = "4" -> 4 [] c = "5" -> 5 [] c = "6" -> 6 [] c = "7" -> 7
      [] c = "8" -> 8 [] c = "9" -> 9

RECURSIVE Pow10(_)
Pow10(k) == IF k = 0 THEN 1 ELSE 10 * Pow10(k - 1)

\* ------------------------------------------------------------------------
\* std::stringstream extraction of a T (ss << span; ss >> value; ss.fail())
\* ------------------------------------------------------------------------
\* number of leading digits of s from position i on
RECURSIVE DigitRun(_, _)
DigitRun(s, i) ==
    IF i <= Len(s) /\ s[i] \in Digits THEN 1 + DigitRun(s, i + 1) ELSE 0

\* the natural number written by the digits s[i] .. s[i+n-1]
RECURSIVE DigitsValue(_, _, _)
DigitsValue(s, i, n) ==
    IF n = 0 THEN 0
    ELSE 10 * DigitsValue(s, i, n - 1) + DigitVal(s[i + n - 1])

\* number of leading whitespace characters of s from position i on
RECURSIVE WhitespaceRun(_, _)
WhitespaceRun(s, i) ==
    IF i <= Len(s) /\ s[i] \in Whitespace
    THEN 1 + WhitespaceRun(s, i + 1) ELSE 0

\* The extraction skips leading whitespace (skipws), then reads the longest
\* prefix of the form
\*   [sign] digits [ '.' digits ]   or   [sign] '.' digits
\* and fails exactly when that prefix holds no digit; what follows the
\* prefix is left unread in the stream and does not make it fail.
\* (Exponents are not modelled: no text of the model holds 'e' or 'E'.)
ExtractNumber(s) ==
    LET ws      == WhitespaceRun(s, 1)
        signLen == IF Len(s) > ws /\ s[ws + 1] \in {"+", "-"} THEN 1 ELSE 0
        neg     == signLen = 1 /\ s[ws + 1] = "-"
        i0      == ws + signLen + 1
        nInt    == DigitRun(s, i0)
        dot     == i0 + nInt
        hasDot  == dot <= Len(s) /\ s[dot] = "."
        nFrac   == IF hasDot THEN DigitRun(s, dot + 1) ELSE 0
        mag     == Rat(DigitsValue(s, i0, nInt) * Pow10(nFrac)
                         + DigitsValue(s, dot + 1, nFrac), Pow10(nFrac))
    IN  IF nInt + nFrac = 0
        THEN [fail |-> TRUE, value |-> Zero]
        ELSE [fail |-> FALSE,
              value |-> IF neg THEN RSub(Zero, mag) ELSE mag]

\* ------------------------------------------------------------------------
\* Nodes of the tree (classes of namespace _internal)
\* ------------------------------------------------------------------------
\* an empty std::shared_ptr<Node<T>>
Null == [kind |-> "Null"]

ConstantNode(value) == [kind |-> "Constant", value |-> value]

\* holds the shared cell itself, not a copy of its value
VariableNode(cell) == [kind |-> "Variable", cell |-> cell]

\* an OperatorNode after LinkLeft and LinkRight
OperatorNode(op, left, right) ==
    [kind |-> "Operator", op |-> op, left |-> left, right |-> right]

\* a FunctionNode after LinkArgument
FunctionNode(fn, arg) == [kind |-> "Function", fn |-> fn, arg |-> arg]

\* the unary functions a caller registers (std::function<T(T)> values)
FunctionValues == {"inc", "dbl"}

ApplyFunction(fn, v) ==
    IF fn = "inc" THEN RAdd(v, FromInt(1)) ELSE RMul(v, FromInt(2))

\* EvalNode with a VariableNode that yields the value its cell was created
\* with instead of the value the cell holds now
RECURSIVE EvalNodeStale(_, _, _)
EvalNodeStale(node, cells, status) ==
    CASE node.kind = "Constant" -> [value |-> node.value, status |-> status]
      [] node.kind = "Variable" -> [value |-> Zero, status |-> status]
      [] node.kind = "Function" ->
            LET a == EvalNodeStale(node.arg, cells, status)
            IN  [value |-> ApplyFunction(node.fn, a.value),
                 status |-> a.status]
      [] node.kind = "Operator" ->
            LET l == EvalNodeStale(node.left, cells, status)
                r == EvalNodeStale(node.right, cells, l.status)
            IN  CASE node.op = "Add" ->
                       [value |-> RAdd(l.value, r.value), status |-> r.status]
                  [] node.op = "Sub" ->
                       [value |-> RSub(l.value, r.value), status |-> r.status]
                  [] node.op = "Mul" ->
                       [value |-> RMul(l.value, r.value), status |-> r.status]
                  [] node.op = "Div" ->
                       IF r.value = Zero
                       THEN [value |-> Zero,
                             status |-> Error_Division_By_Zero]
                       ELSE [value |-> RDiv(l.value, r.value),
                             status |-> r.status]

\* EvalNode with an OperatorNode that writes Success to status when it has
\* computed its result
RECURSIVE EvalNodeWritesSuccess(_, _, _)
EvalNodeWritesSuccess(node, cells, status) ==
    CASE node.kind = "Constant" -> [value |-> node.value, status |-> status]
      [] node.kind = "Variable" ->
            [value |-> cells[node.cell], status |-> status]
      [] node.kind = "Function" ->
            LET a == EvalNodeWritesSuccess(node.arg, cells, status)
            IN  [value |-> ApplyFunction(node.fn, a.value),
                 status |-> a.status]
      [] node.kind = "Operator" ->
            LET l == EvalNodeWritesSuccess(node.left, cells, status)
                r == EvalNodeWritesSuccess(node.right, cells, l.status)
            IN  CASE node.op = "Add" ->
                       [value |-> RAdd(l.value, r.value), status |-> Success]
                  [] node.op = "Sub" ->
                       [value |-> RSub(l.value, r.value), status |-> Success]
                  [] node.op = "Mul" ->
                       [value |-> RMul(l.value, r.value), status |-> Success]
                  [] node.op = "Div" ->
                       IF r.value = Zero
                       THEN [value |-> Zero,
                             status |-> Error_Division_By_Zero]
                       ELSE [value |-> RDiv(l.value, r.value),
                             status |-> Success]

\* Node<T>::Eval(status): the value, and the status as the call leaves it.
\* cells maps every variable cell to its current value.
RECURSIVE EvalNode(_, _, _)
EvalNode(node, cells, status) ==
    CASE node.kind = "Constant" -> [value |-> node.value, status |-> status]
      [] node.kind = "Variable" ->
            [value |-> cells[node.cell], status |-> status]
      [] node.kind = "Function" ->
            LET a == EvalNode(node.arg, cells, status)
            IN  [value |-> ApplyFunction(node.fn, a.value),
                 status |-> a.status]
      [] node.kind = "Operator" ->
            LET l == EvalNode(node.left, cells, status)
                r == EvalNode(node.right, cells, l.status)
            IN  CASE node.op = "Add" ->
                       [value |-> RAdd(l.value, r.value), status |-> r.status]
                  [] node.op = "Sub" ->
                       [value |-> RSub(l.value, r.value), status |-> r.status]
                  [] node.op = "Mul" ->
                       [value |-> RMul(l.value, r.value), status |-> r.status]
                  [] node.op = "Div" ->
                       IF r.value = Zero
                       THEN [value |-> Zero,
                             status |-> Error_Division_By_Zero]
                       ELSE [value |-> RDiv(l.value, r.value),
                             status |-> r.status]

\* ------------------------------------------------------------------------
\* Parsing
\* ------------------------------------------------------------------------
\* The parse context: the character buffer of Parse's local string, what a
\* read in front of the buffer and a read behind it yield, and the two maps.
Context(buf, before, after, symbols, functions) ==
    [buf |-> buf, before |-> before, after |-> after,
     symbols |-> symbols, functions |-> functions]

\* *it for an iterator at position i.  A read outside the buffer is
\* undefined behaviour: it yields whatever the context says lies there.
CharAt(ctx, i) ==
    IF i < 1 THEN ctx.before
    ELSE IF i > Len(ctx.buf) THEN ctx.after
    ELSE ctx.buf[i]

\* std::string(begin, end)
SpanText(ctx, begin, end) == SubSeq(ctx.buf, begin, end - 1)

\* Scan stopping at the last character of ops met at depth 0
RECURSIVE ScanLast(_, _, _, _, _)
ScanLast(ctx, it, end, depth, ops) ==
    IF it = end
    THEN [it |-> it, depth |-> depth, found |-> FALSE]
    ELSE LET c == CharAt(ctx, it)
             d == IF c = "(" THEN depth + 1
                  ELSE IF c = ")" THEN depth - 1
                  ELSE depth
             rest == ScanLast(ctx, it + 1, end, d, ops)
         IN  IF rest.found THEN rest
             ELSE IF d = 0 /\ c \in ops
             THEN [it |-> it, depth |-> d, found |-> TRUE]
             ELSE rest

\* One scanning loop of ParseSubString: walk from it to end, keep the
\* bracket depth, stop at the first character of ops met at depth 0.
RECURSIVE Scan(_, _, _, _, _)
Scan(ctx, it, end, depth, ops) ==
    IF it = end
    THEN [it |-> it, depth |-> depth, found |-> FALSE]
    ELSE LET c == CharAt(ctx, it)
             d == IF c = "(" THEN depth + 1
                  ELSE IF c = ")" THEN depth - 1
                  ELSE depth
         IN  IF d = 0 /\ c \in ops
             THEN [it |-> it, depth |-> d, found |-> TRUE]
             ELSE Scan(ctx, it + 1, end, d, ops)

\* FindOperator looking for '*' and '/' before '+' and '-'
FindOperatorMulDivFirst(ctx, begin, end) ==
    LET first == Scan(ctx, begin, end, 0, {"*", "/"})
    IN  IF first.depth # 0
        THEN [it |-> first.it, depth |-> first.depth, symbol |-> NUL]
        ELSE IF first.found
        THEN [it |-> first.it, depth |-> 0,
              symbol |-> CharAt(ctx, first.it)]
        ELSE LET second == Scan(ctx, begin, end, 0, {"+", "-"})
             IN  [it |-> second.it, depth |-> 0,
                  symbol |-> IF second.found THEN CharAt(ctx, second.it)
                             ELSE NUL]

\* FindOperator without the check that the brackets cancel out
FindOperatorUnchecked(ctx, begin, end) ==
    LET first == Scan(ctx, begin, end, 0, {"+", "-"})
    IN  IF first.found
        THEN [it |-> first.it, depth |-> 0,
              symbol |-> CharAt(ctx, first.it)]
        ELSE LET second == Scan(ctx, begin, end, 0, {"*", "/"})
             IN  [it |-> second.it, depth |-> 0,
                  symbol |-> IF second.found THEN CharAt(ctx, second.it)
                             ELSE NUL]

\* The two scans: depth is bracket_depth after the first loop, symbol is
\* operator_symbol (NUL for '\0') and it is where the iterator stands.
FindOperator(ctx, begin, end) ==
    LET first == Scan(ctx, begin, end, 0, {"+", "-"})
    IN  IF first.depth # 0
        THEN [it |-> first.it, depth |-> first.depth, symbol |-> NUL]
        ELSE IF first.found
        THEN [it |-> first.it, depth |-> 0,
              symbol |-> CharAt(ctx, first.it)]
        ELSE LET second == Scan(ctx, begin, end, 0, {"*", "/"})
             IN  [it |-> second.it, depth |-> 0,
                  symbol |-> IF second.found THEN CharAt(ctx, second.it)
                             ELSE NUL]

OperatorOf(symbol) ==
    CASE symbol = "+" -> "Add" [] symbol = "-" -> "Sub"
      [] symbol = "*" -> "Mul" [] symbol = "/" -> "Div"

\* _exprparse_parse_error(error)
ParseError(error) == [node |-> Null, status |-> error]

\* FuncEnd stopping at the last '(' of the span instead of the first
RECURSIVE FuncEndLast(_, _, _)
FuncEndLast(ctx, func_end, end) ==
    IF func_end = end THEN end
    ELSE LET rest == FuncEndLast(ctx, func_end + 1, end)
         IN  IF rest # end THEN rest
             ELSE IF CharAt(ctx, func_end) = "(" THEN func_end
             ELSE end

\* first position p in func_end .. end with p = end or *p = '('
RECURSIVE FuncEnd(_, _, _)
FuncEnd(ctx, func_end, end) ==
    IF func_end # end /\ CharAt(ctx, func_end) # "("
    THEN FuncEnd(ctx, func_end + 1, end)
    ELSE func_end

\* LinkOperator reporting the failure of the left operand when there is
\* one, whatever the right operand did
LinkOperatorFirstFailure(op, l, r) ==
    IF l.status # Success THEN [node |-> Null, status |-> l.status]
    ELSE IF r.status = Success
    THEN [node |-> OperatorNode(op, l.node, r.node), status |-> r.status]
    ELSE [node |-> Null, status |-> r.status]

\* LinkOperator linking the operands the wrong way round
LinkOperatorSwapped(op, l, r) ==
    IF r.status = Success
    THEN [node |-> OperatorNode(op, r.node, l.node), status |-> r.status]
    ELSE [node |-> Null, status |-> r.status]

\* LinkOperator returning the node whatever the status is
LinkOperatorUnchecked(op, l, r) ==
    [node |-> OperatorNode(op, l.node, r.node), status |-> r.status]

\* The end of a split: l is the left operand and the status it left, r the
\* right operand and the status after it.  The node with both operands
\* linked is returned if the status is Success, and nothing if not.
LinkOperator(op, l, r) ==
    IF r.status = Success
    THEN [node |-> OperatorNode(op, l.node, r.node), status |-> r.status]
    ELSE [node |-> Null, status |-> r.status]

\* ParseSubString(begin, end, status): the node returned and the status as
\* the call leaves it (status is passed by reference and only ever written
\* with an error).
RECURSIVE ParseSubString(_, _, _, _)
ParseSubString(ctx, begin, end, status) ==
    LET found == FindOperator(ctx, begin, end)
        it    == found.it
    IN
    IF found.depth # 0 THEN ParseError(Error_Syntax_Error)
    ELSE IF found.symbol # NUL THEN
        IF begin # it THEN
            LET l == ParseSubString(ctx, begin, it, status)
                r == ParseSubString(ctx, it + 1, end, l.status)
            IN  LinkOperator(OperatorOf(found.symbol), l, r)
        ELSE IF found.symbol = "-" THEN
            LET l == [node |-> ConstantNode(Zero), status |-> status]
                r == ParseSubString(ctx, it + 1, end, status)
            IN  LinkOperator(OperatorOf(found.symbol), l, r)
        ELSE ParseError(Error_Syntax_Error)
    ELSE IF CharAt(ctx, begin) = "(" /\ CharAt(ctx, end - 1) = ")" THEN
        \* strip potential brackets
        IF begin + 1 = end - 1
        THEN [node |-> ConstantNode(Zero), status |-> status]
        ELSE IF begin + 1 > end - 1 THEN ParseError(Error_Syntax_Error)
        ELSE ParseSubString(ctx, begin + 1, end - 1, status)
    ELSE
        LET text  == SpanText(ctx, begin, end)
            const == ExtractNumber(text)
        IN
        IF ~const.fail
        THEN [node |-> ConstantNode(const.value), status |-> status]
        ELSE IF text \in DOMAIN ctx.symbols
        THEN [node |-> VariableNode(ctx.symbols[text]), status |-> status]
        ELSE IF CharAt(ctx, end - 1) # ")"
        THEN ParseError(Error_Syntax_Error)
        ELSE LET func_end == FuncEnd(ctx, begin, end)
                 name     == SpanText(ctx, begin, func_end)
             IN
             IF CharAt(ctx, func_end) # "("
             THEN ParseError(Error_Syntax_Error)
             ELSE IF name \in DOMAIN ctx.functions
             THEN LET arg == ParseSubString(ctx, func_end + 1, end - 1,
                                            status)
                  IN  IF arg.status # Success
                      THEN [node |-> Null, status |-> arg.status]
                      ELSE [node |-> FunctionNode(ctx.functions[name],
                                                  arg.node),
                            status |-> arg.status]
             ELSE ParseError(Error_Unregistered_Symbol)

\* The positions whose character the call ParseSubString(begin, end, ..)
\* reads itself, the calls it makes left aside: the scans read every
\* position up to where they stop, the bracket test reads *begin and, if
\* that is '(', *(end - 1); the constant check and the variable lookup read
\* the span; the function lookup reads *(end - 1), then every position up
\* to func_end, func_end included.
Inspected(ctx, begin, end) ==
    LET found   == FindOperator(ctx, begin, end)
        scanned == IF found.depth = 0 /\ found.symbol \in {"+", "-"}
                   THEN begin..found.it
                   ELSE begin..(end - 1)
        text    == SpanText(ctx, begin, end)
    IN  IF found.depth # 0 \/ found.symbol # NUL THEN scanned
        ELSE IF CharAt(ctx, begin) = "(" THEN scanned \cup {begin, end - 1}
                 \cup IF CharAt(ctx, end - 1) = ")" THEN {}
                      ELSE IF ~ExtractNumber(text).fail
                              \/ text \in DOMAIN ctx.symbols
                      THEN {}
                      ELSE {end - 1}
        ELSE IF ~ExtractNumber(text).fail \/ text \in DOMAIN ctx.symbols
        THEN scanned \cup {begin}
        ELSE IF CharAt(ctx, end - 1) # ")"
        THEN scanned \cup {begin, end - 1}
        ELSE scanned \cup {begin, end - 1}
                 \cup begin..FuncEnd(ctx, begin, end)

\* The spans <<begin, end>> of the calls of ParseSubString made during the
\* call ParseSubString(begin, end, ..), that call included.  Which calls
\* are made does not depend on the status.
RECURSIVE Calls(_, _, _)
Calls(ctx, begin, end) ==
    LET found == FindOperator(ctx, begin, end)
        it    == found.it
        text  == SpanText(ctx, begin, end)
    IN  {<<begin, end>>} \cup
        IF found.depth # 0 THEN {}
        ELSE IF found.symbol # NUL THEN
            IF begin # it
            THEN Calls(ctx, begin, it) \cup Calls(ctx, it + 1, end)
            ELSE IF found.symbol = "-" THEN Calls(ctx, it + 1, end)
            ELSE {}
        ELSE IF CharAt(ctx, begin) = "(" /\ CharAt(ctx, end - 1) = ")" THEN
            IF begin + 1 >= end - 1 THEN {}
            ELSE Calls(ctx, begin + 1, end - 1)
        ELSE IF ~ExtractNumber(text).fail \/ text \in DOMAIN ctx.symbols
        THEN {}
        ELSE IF CharAt(ctx, end - 1) # ")" THEN {}
        ELSE LET func_end == FuncEnd(ctx, begin, end)
             IN  IF CharAt(ctx, func_end) # "(" THEN {}
                 ELSE IF SpanText(ctx, begin, func_end)
                            \in DOMAIN ctx.functions
                 THEN Calls(ctx, func_end + 1, end - 1)
                 ELSE {}

\* RemoveSpaces removing the first blank only
RemoveFirstSpace(s) ==
    LET blanks == {i \in 1..Len(s) : s[i] = " "}
        first  == CHOOSE i \in blanks : \A j \in blanks : i <= j
    IN  IF blanks = {} THEN [buf |-> s, new_end |-> Len(s) + 1]
        ELSE [buf |-> SubSeq(s, 1, first - 1)
                        \o SubSeq(s, first + 1, Len(s)) \o <<s[Len(s)]>>,
              new_end |-> Len(s)]

\* std::remove(begin, end, ' '): the kept characters move to the front and
\* the characters behind the new end stay what they were.
RemoveSpaces(s) ==
    LET kept == SelectSeq(s, LAMBDA c : c # " ")
    IN  [buf |-> kept \o SubSeq(s, Len(kept) + 1, Len(s)),
         new_end |-> Len(kept) + 1]

\* Expression<T>::Parse(expr_string): the new _base and the status returned
ParseResult(expr_string, symbols, functions, before, after) ==
    LET removed == RemoveSpaces(expr_string)
        ctx == Context(removed.buf, before, after, symbols, functions)
        r   == ParseSubString(ctx, 1, removed.new_end, Success)
    IN  [base |-> IF r.status # Success THEN Null ELSE r.node,
         status |-> r.status]

\* ------------------------------------------------------------------------
\* Inputs
\* ------------------------------------------------------------------------
\* names a caller registers
x == <<"x">>
y == <<"y">>
z == <<"z">>
f == <<"f">>
Names == {x, f}

\* the variable cells a caller creates (std::shared_ptr<T>)
Cells == {"c1", "c2", "c3"}
RegisteredCells == {"c1", "c2"}
\* the cell the caller writes to
WrittenCells == {"c1"}

\* the values a caller stores in a cell
CellValues == {FromInt(0), FromInt(5), FromInt(7)}

\* What a read outside the buffer can yield, up to what the code compares
\* it with.  A read in front of the buffer is only ever *(end - 1), which is
\* compared with ')'; a read behind it is only ever *begin or *func_end,
\* which are compared with '('.
BeforeChars == {NUL, ")"}
AfterChars == {NUL, "("}

\* the texts the calls of Parse are given
Texts ==
    {<<>>,
     <<"x", "*", "2">>,
     <<"1", "/", "x">>,
     <<"1", "/", "0">>}

\* longest text drawn character by character
MaxLen == 3

Alphabet ==
    {"0", "1", "2", ".", " ", TAB, "+", "-", "*", "/", "(", ")", "x", "f",
     "u"}

\* texts longer than MaxLen
LongTexts ==
    {<<"1", "0", "-", "3", "-", "2">>,
     <<"8", "/", "4", "/", "2">>,
     <<"x", "-", "y", "-", "z">>,
     <<"x", "-", "y", "+", "z">>,
     <<"x", "/", "y", "/", "z">>,
     <<"2", "+", "3", "*", "4">>,
     <<"2", "*", "3", "+", "4">>,
     <<"(", "2", "+", "3", ")", "*", "4">>,
     <<"(", "1", "+", "2">>,
     <<"1", "+", "(", "2">>,
     <<"f", "o", "o", "(", "1", ")", "+", "(", "2">>,
     <<"f", "o", "o", "(", "1", ")">>,
     <<"(", "1", "+", "2", ")", "(", "3", "+", "4", ")">>,
     <<"-", "(", "2", "*", "x", "+", "y", ")", "/", "z">>,
     <<"f", "(", "x", "+", "1", ")">>,
     <<"1", ".", "5">>,
     <<"2", " ", "+", " ", "3", " ", "*", " ", "4">>,
     <<"f", "(", "1", ")", "(", "2", ")">>,
     <<"1", "/", "0", "+", "5">>,
     <<"1", " ", "+", " ", "1", " ", "/", " ", "(", "x", " ", "+", " ", "y",
       ")">>,
     <<"1", "+", "1", "/", "(", "x", "+", "y", ")">>,
     <<"x", TAB, "+", "1">>,
     <<"f", "o", "o", "(", "1", ")", "+", "u">>,
     <<"u", "+", "f", "o", "o", "(", "1", ")">>,
     <<"-", "x", "+", "y">>,
     <<"+", "u", "(", ")">>,
     <<"5", "+", "1", "/", "0">>,
     <<"f", "(", "1", "/", "0", ")">>,
     <<"1", "/", "(", "x", "-", "3", ")">>}

ParseTexts == UNION {[1..n -> Alphabet] : n \in 0..MaxLen} \cup LongTexts

\* ------------------------------------------------------------------------
\* State
\* ------------------------------------------------------------------------
VARIABLES
    symbols,     \* Expression::_symbols, name -> cell
    functions,   \* Expression::_functions, name -> function
    base,        \* Expression::_base, the compiled tree or Null
    cells,       \* the value each variable cell holds
    text,        \* the argument of the latest call of Parse
    lastParse,   \* the status the latest Parse returned, "none" before it
    discarded,   \* the latest Parse failed and dropped a compiled tree
    prevEval,    \* what the Eval before the latest one returned, and
    lastEval,    \* what the latest Eval returned (since the latest Parse)
    ret          \* the latest call: operation, arguments, status and value

vars ==
    <<symbols, functions, base, cells, text, lastParse, discarded,
      prevEval, lastEval, ret>>

\* no Eval yet
NoEval == [value |-> Zero, status |-> "none"]

\* the empty std::map
EmptyMap == [n \in {} |-> NUL]

Call(op, name, arg, status, value) ==
    [op |-> op, name |-> name, arg |-> arg, status |-> status,
     value |-> value]

NoCall == Call("none", <<>>, NUL, Success, Zero)

\* a default-constructed Expression; cells as CreateVariable(0) makes them
Init ==
    /\ symbols = EmptyMap
    /\ functions = EmptyMap
    /\ base = Null
    /\ cells = [c \in Cells |-> Zero]
    /\ text = <<>>
    /\ lastParse = "none"
    /\ discarded = FALSE
    /\ prevEval = NoEval
    /\ lastEval = NoEval
    /\ ret = NoCall

\* TryEmplace overwriting the mapping of a key that is present
InsertOrAssign(map, key, value) ==
    [k \in DOMAIN map \cup {key} |-> IF k = key THEN value ELSE map[k]]

\* std::map::try_emplace(key, value): the map after the call
TryEmplace(map, key, value) ==
    IF key \in DOMAIN map THEN map
    ELSE [k \in DOMAIN map \cup {key} |-> IF k = key THEN value ELSE map[k]]

\* Expression::RegisterVariable(name, variable)
RegisterVariableStatus(name) ==
    IF name \in DOMAIN functions THEN Error_Variable_Function_Name_Clash
    ELSE IF name \in DOMAIN symbols THEN Error_Variable_Already_Registered
    ELSE Success

RegisterVariable(name, variable) ==
    /\ symbols' = IF name \in DOMAIN functions THEN symbols
                  ELSE TryEmplace(symbols, name, variable)
    /\ ret' = Call("RegisterVariable", name, variable,
                   RegisterVariableStatus(name), Zero)
    /\ UNCHANGED <<functions, base, cells, text, lastParse, discarded,
                   prevEval, lastEval>>

\* Expression::RegisterFunction(name, function)
RegisterFunctionStatus(name) ==
    IF name \in DOMAIN symbols THEN Error_Variable_Function_Name_Clash
    ELSE IF name \in DOMAIN functions THEN Error_Function_Already_Registered
    ELSE Success

RegisterFunction(name, function) ==
    /\ functions' = IF name \in DOMAIN symbols THEN functions
                    ELSE TryEmplace(functions, name, function)
    /\ ret' = Call("RegisterFunction", name, function,
                   RegisterFunctionStatus(name), Zero)
    /\ UNCHANGED <<symbols, base, cells, text, lastParse, discarded,
                   prevEval, lastEval>>

\* Parse keeping the tree it has when the new text does not parse
ParseKeepsTree(expr_string, before, after) ==
    LET r == ParseResult(expr_string, symbols, functions, before, after)
    IN  /\ base' = IF r.status # Success THEN base ELSE r.base
        /\ text' = expr_string
        /\ lastParse' = r.status
        /\ discarded' = (base # Null /\ r.status # Success)
        /\ prevEval' = NoEval
        /\ lastEval' = NoEval
        /\ ret' = Call("Parse", <<>>, NUL, r.status, Zero)
        /\ UNCHANGED <<symbols, functions, cells>>

\* Parse clearing the variable map once the text has parsed
ParseClearsSymbols(expr_string, before, after) ==
    LET r == ParseResult(expr_string, symbols, functions, before, after)
    IN  /\ base' = r.base
        /\ symbols' = IF r.status = Success THEN EmptyMap ELSE symbols
        /\ text' = expr_string
        /\ lastParse' = r.status
        /\ discarded' = (base # Null /\ r.status # Success)
        /\ prevEval' = NoEval
        /\ lastEval' = NoEval
        /\ ret' = Call("Parse", <<>>, NUL, r.status, Zero)
        /\ UNCHANGED <<functions, cells>>

\* Expression::Parse(expr_string); before and after are what the memory
\* around the string buffer holds
Parse(expr_string, before, after) ==
    LET r == ParseResult(expr_string, symbols, functions, before, after)
    IN  /\ base' = r.base
        /\ text' = expr_string
        /\ lastParse' = r.status
        /\ discarded' = (base # Null /\ r.status # Success)
        /\ prevEval' = NoEval
        /\ lastEval' = NoEval
        /\ ret' = Call("Parse", <<>>, NUL, r.status, Zero)
        /\ UNCHANGED <<symbols, functions, cells>>

\* SetVariable(var, value)
SetVariable(var, value) ==
    /\ cells' = [cells EXCEPT ![var] = value]
    /\ ret' = Call("SetVariable", <<>>, var, Success, value)
    /\ UNCHANGED <<symbols, functions, base, text, lastParse, discarded,
                   prevEval, lastEval>>

\* EvalResult without the reset of status to Success: the caller's status
\* variable still holds what the Eval before wrote to it
EvalResultSticky ==
    IF base = Null
    THEN [value |-> Zero, status |-> Error_Not_Compiled]
    ELSE EvalNode(base, cells,
                  IF lastEval = NoEval THEN Success ELSE lastEval.status)

\* Expression::Eval(status)
EvalResult ==
    IF base = Null
    THEN [value |-> Zero, status |-> Error_Not_Compiled]
    ELSE EvalNode(base, cells, Success)

Eval ==
    /\ ret' = Call("Eval", <<>>, NUL, EvalResult.status, EvalResult.value)
    /\ prevEval' = lastEval
    /\ lastEval' = EvalResult
    /\ UNCHANGED <<symbols, functions, base, cells, text, lastParse,
                   discarded>>

Next ==
    \/ \E name \in Names, variable \in RegisteredCells :
           RegisterVariable(name, variable)
    \/ \E name \in Names, function \in FunctionValues :
           RegisterFunction(name, function)
    \/ \E expr_string \in Texts, before \in BeforeChars, after \in AfterChars :
           Parse(expr_string, before, after)
    \/ \E var \in WrittenCells, value \in CellValues :
           SetVariable(var, value)
    \/ Eval

Spec == Init /\ [][Next]_vars

\* ------------------------------------------------------------------------
\* Parsing one text against a fixed symbol table
\* ------------------------------------------------------------------------
\* x, y and z registered as variables holding 3, 4 and 2, f as a function
InitParse ==
    /\ symbols = (x :> "c1") @@ (y :> "c2") @@ (z :> "c3")
    /\ functions = (f :> "inc")
    /\ base = Null
    /\ cells = ("c1" :> FromInt(3)) @@ ("c2" :> FromInt(4))
                 @@ ("c3" :> FromInt(2))
    /\ text \in ParseTexts
    /\ lastParse = "none"
    /\ discarded = FALSE
    /\ prevEval = NoEval
    /\ lastEval = NoEval
    /\ ret = NoCall

\* the first call: Parse of the text drawn
ParseText ==
    /\ lastParse = "none"
    /\ \E before \in BeforeChars, after \in AfterChars :
           Parse(text, before, after)

NextParse == ParseText \/ (lastParse # "none" /\ Eval)

SpecParse == InitParse /\ [][NextParse]_vars

\* ------------------------------------------------------------------------
\* Properties of the Expression facade (checked under Spec)
\* ------------------------------------------------------------------------
XTimes2 == <<"x", "*", "2">>
OneOverX == <<"1", "/", "x">>
OneOverZero == <<"1", "/", "0">>

\* C1: Eval returns (0, Error_Not_Compiled) exactly when no Parse has been
\* called yet or the latest Parse returned a non-Success status; a failed
\* Parse leaves no tree behind, also when an earlier Parse had stored one,
\* and after a successful Parse Eval never returns Error_Not_Compiled.
C1_NotCompiledIffNoSuccessfulParse ==
    /\ (base = Null) <=> (lastParse # Success)
    /\ ret.op = "Eval" =>
          /\ (ret.status = Error_Not_Compiled) <=> (lastParse # Success)
          /\ ret.status = Error_Not_Compiled => ret.value = Zero

\* an Eval after a failed Parse that dropped an earlier tree
C1_Witness ==
    /\ ret.op = "Eval"
    /\ ret.status = Error_Not_Compiled
    /\ discarded

\* C2: RegisterVariable returns Error_Variable_Function_Name_Clash for a
\* name that is a function, else Error_Variable_Already_Registered for a
\* name that is a variable, else inserts the binding and returns Success;
\* RegisterFunction is symmetric; a registration that does not return
\* Success changes neither map.
RegisterVariableContract ==
    LET name == ret'.name
        variable == ret'.arg
    IN  IF name \in DOMAIN functions
        THEN /\ ret'.status = Error_Variable_Function_Name_Clash
             /\ symbols' = symbols /\ functions' = functions
        ELSE IF name \in DOMAIN symbols
        THEN /\ ret'.status = Error_Variable_Already_Registered
             /\ symbols' = symbols /\ functions' = functions
        ELSE /\ ret'.status = Success
             /\ DOMAIN symbols' = DOMAIN symbols \cup {name}
             /\ symbols'[name] = variable
             /\ \A n \in DOMAIN symbols : symbols'[n] = symbols[n]
             /\ functions' = functions

RegisterFunctionContract ==
    LET name == ret'.name
        function == ret'.arg
    IN  IF name \in DOMAIN symbols
        THEN /\ ret'.status = Error_Variable_Function_Name_Clash
             /\ symbols' = symbols /\ functions' = functions
        ELSE IF name \in DOMAIN functions
        THEN /\ ret'.status = Error_Function_Already_Registered
             /\ symbols' = symbols /\ functions' = functions
        ELSE /\ ret'.status = Success
             /\ DOMAIN functions' = DOMAIN functions \cup {name}
             /\ functions'[name] = function
             /\ \A n \in DOMAIN functions : functions'[n] = functions[n]
             /\ symbols' = symbols

C2_RegistrationContract ==
    [][/\ ret'.op = "RegisterVariable" => RegisterVariableContract
       /\ ret'.op = "RegisterFunction" => RegisterFunctionContract]_vars

\* a second registration of a variable name with another cell was refused
\* and the first cell is still bound
C2_Witness ==
    /\ ret.op = "RegisterVariable"
    /\ ret.status = Error_Variable_Already_Registered
    /\ ret.name \in DOMAIN symbols
    /\ symbols[ret.name] # ret.arg

\* C3: no name is in both maps, and no call removes or rebinds a name that
\* is registered (neither a successful nor a failed Parse does).
AppendOnly(old, new) ==
    \A n \in DOMAIN old : n \in DOMAIN new /\ new[n] = old[n]

C3_DisjointAppendOnly ==
    /\ [](DOMAIN symbols \cap DOMAIN functions = {})
    /\ [][/\ AppendOnly(symbols, symbols')
          /\ AppendOnly(functions, functions')]_vars

\* a successful Parse with a variable and a function registered
C3_Witness ==
    /\ ret.op = "Parse"
    /\ lastParse = Success
    /\ DOMAIN symbols = {x}
    /\ DOMAIN functions = {f}

\* C4: Eval reads the cell of a VariableNode at the time of the call, so
\* "x*2" evaluates to twice what the cell of x holds now, without a new
\* Parse; Eval changes neither the tree nor a cell, and an Eval right after
\* an Eval returns the same value and status.
C4_EvalReadsLiveCells ==
    /\ [](ret.op = "Eval" /\ text = XTimes2 /\ lastParse = Success =>
            /\ ret.status = Success
            /\ ret.value = RMul(cells[symbols[x]], FromInt(2)))
    /\ [][ret'.op = "Eval" =>
            /\ base' = base
            /\ cells' = cells
            /\ ret.op = "Eval" =>
                  ret'.value = ret.value /\ ret'.status = ret.status]_vars

\* "x*2" evaluated to 10 and then, with the cell set to 7 and no new Parse,
\* to 14
C4_Witness ==
    /\ ret.op = "Eval"
    /\ text = XTimes2
    /\ prevEval = [value |-> FromInt(10), status |-> Success]
    /\ lastEval = [value |-> FromInt(14), status |-> Success]
    /\ ret.value = FromInt(14)

\* C5: "1/0" parses; a division by zero is reported by Eval with the value
\* 0; the tree stays compiled, and once the divisor is not zero the next
\* Eval returns Success with the quotient.
C5_DivisionByZeroAtEval ==
    /\ text = OneOverZero /\ ret.op = "Parse" => ret.status = Success
    /\ text = OneOverZero /\ ret.op = "Eval" =>
          ret.status = Error_Division_By_Zero /\ ret.value = Zero
    /\ text = OneOverX /\ ret.op = "Eval" /\ lastParse = Success =>
          IF cells[symbols[x]] = Zero
          THEN ret.status = Error_Division_By_Zero /\ ret.value = Zero
          ELSE /\ ret.status = Success
               /\ ret.value = RDiv(FromInt(1), cells[symbols[x]])
    /\ lastEval.status = Error_Division_By_Zero =>
          base # Null /\ lastParse = Success

\* "1/x" reported a division by zero and then, on the same tree, a quotient
C5_Witness ==
    /\ ret.op = "Eval"
    /\ text = OneOverX
    /\ prevEval.status = Error_Division_By_Zero
    /\ lastEval = [value |-> <<1, 5>>, status |-> Success]

\* ------------------------------------------------------------------------
\* Properties of the parser (checked under SpecParse)
\* ------------------------------------------------------------------------
PlusMinus == {"+", "-"}
MulDiv == {"*", "/"}

\* the text without its blanks
Stripped(s) == SelectSeq(s, LAMBDA c : c # " ")

\* number of occurrences of c in s
Count(s, c) == Cardinality({i \in 1..Len(s) : s[i] = c})

\* nesting depth at position i: brackets opened minus brackets closed in
\* s[1] .. s[i]
DepthAt(s, i) ==
    Cardinality({j \in 1..i : s[j] = "("})
      - Cardinality({j \in 1..i : s[j] = ")"})

\* positions of the characters of ops at nesting depth 0
Depth0(s, ops) == {i \in 1..Len(s) : s[i] \in ops /\ DepthAt(s, i) = 0}

Min(S) == CHOOSE m \in S : \A k \in S : m <= k

\* s is written as digits with at most one decimal point
IsNumericLiteral(s) ==
    /\ \A i \in 1..Len(s) : s[i] \in Digits \cup {"."}
    /\ \E i \in 1..Len(s) : s[i] \in Digits
    /\ Count(s, ".") <= 1

\* the tree the parser builds for s on its own, Null when s does not parse
TreeOf(s) == ParseResult(s, symbols, functions, NUL, NUL).base

Parsed == lastParse # "none"

Var(name) == VariableNode(symbols[name])

T_xMinusYMinusZ == <<"x", "-", "y", "-", "z">>
T_xMinusYPlusZ == <<"x", "-", "y", "+", "z">>
T_xDivYDivZ == <<"x", "/", "y", "/", "z">>
T_10Minus3Minus2 == <<"1", "0", "-", "3", "-", "2">>
T_8Div4Div2 == <<"8", "/", "4", "/", "2">>
T_2Plus3Times4 == <<"2", "+", "3", "*", "4">>
T_2Times3Plus4 == <<"2", "*", "3", "+", "4">>
T_Bracket2Plus3Times4 == <<"(", "2", "+", "3", ")", "*", "4">>
T_UnbalancedAfterCall == <<"f", "o", "o", "(", "1", ")", "+", "(", "2">>
T_TwoBracketGroups == <<"(", "1", "+", "2", ")", "(", "3", "+", "4", ")">>

\* C6: a span with several depth-0 operators of its lowest precedence class
\* is split at the leftmost of them, so chains group to the right: "a-b-c"
\* is Sub(a, Sub(b, c)), "a-b+c" is Sub(a, Add(b, c)), "a/b/c" is
\* Div(a, Div(b, c)), "10-3-2" evaluates to 9 and "8/4/2" to 4.
C6_LeftmostSplit ==
    LET s   == Stripped(text)
        ops == IF Depth0(s, PlusMinus) # {} THEN Depth0(s, PlusMinus)
               ELSE Depth0(s, MulDiv)
        p   == Min(ops)
    IN  /\ lastParse = Success /\ Cardinality(ops) >= 2 =>
              base = OperatorNode(OperatorOf(s[p]),
                                  IF p = 1 THEN ConstantNode(Zero)
                                  ELSE TreeOf(SubSeq(s, 1, p - 1)),
                                  TreeOf(SubSeq(s, p + 1, Len(s))))
        /\ Parsed /\ text = T_xMinusYMinusZ =>
              base = OperatorNode("Sub", Var(x),
                                  OperatorNode("Sub", Var(y), Var(z)))
        /\ Parsed /\ text = T_xMinusYPlusZ =>
              base = OperatorNode("Sub", Var(x),
                                  OperatorNode("Add", Var(y), Var(z)))
        /\ Parsed /\ text = T_xDivYDivZ =>
              base = OperatorNode("Div", Var(x),
                                  OperatorNode("Div", Var(y), Var(z)))
        /\ ret.op = "Eval" /\ text = T_10Minus3Minus2 =>
              ret.status = Success /\ ret.value = FromInt(9)
        /\ ret.op = "Eval" /\ text = T_8Div4Div2 =>
              ret.status = Success /\ ret.value = FromInt(4)

\* "10-3-2" has been parsed and evaluated to 9
C6_Witness ==
    /\ text = T_10Minus3Minus2
    /\ ret.op = "Eval"
    /\ ret.value = FromInt(9)
    /\ base.kind = "Operator" /\ base.right.kind = "Operator"

\* C7: '*' or '/' is the split point of a span only if the span has no '+'
\* or '-' at nesting depth 0, and an operator at a nesting depth other than
\* 0 is never the split point; "2+3*4" evaluates to 14, "2*3+4" to 10 and
\* "(2+3)*4" to 20.
C7_PrecedenceAndBrackets ==
    LET s     == Stripped(text)
        found == FindOperator(Context(s, NUL, NUL, symbols, functions),
                              1, Len(s) + 1)
    IN  /\ Parsed /\ found.symbol # NUL =>
              /\ DepthAt(s, found.it) = 0
              /\ found.symbol \in MulDiv => Depth0(s, PlusMinus) = {}
        /\ lastParse = Success /\ Depth0(s, PlusMinus) # {} =>
              base.kind = "Operator" /\ base.op \in {"Add", "Sub"}
        /\ ret.op = "Eval" /\ text = T_2Plus3Times4 =>
              ret.status = Success /\ ret.value = FromInt(14)
        /\ ret.op = "Eval" /\ text = T_2Times3Plus4 =>
              ret.status = Success /\ ret.value = FromInt(10)
        /\ ret.op = "Eval" /\ text = T_Bracket2Plus3Times4 =>
              ret.status = Success /\ ret.value = FromInt(20)

\* "(2+3)*4" has been parsed into a product and evaluated to 20
C7_Witness ==
    /\ text = T_Bracket2Plus3Times4
    /\ ret.op = "Eval"
    /\ ret.value = FromInt(20)
    /\ base.kind = "Operator" /\ base.op = "Mul"

\* C8: a text with as many '(' as ')' not being the case, Parse returns
\* Error_Syntax_Error and the Expression is left uncompiled, whatever else
\* the text holds and wherever the unmatched bracket is.
C8_UnbalancedIsSyntaxError ==
    Parsed /\ Count(text, "(") # Count(text, ")") =>
        /\ lastParse = Error_Syntax_Error
        /\ base = Null
        /\ ret.op = "Eval" => ret.status = Error_Not_Compiled

\* "foo(1)+(2", whose left side names an unregistered function, was refused
\* as a syntax error
C8_Witness ==
    /\ text = T_UnbalancedAfterCall
    /\ ret.op = "Parse"
    /\ lastParse = Error_Syntax_Error

\* a non-empty span with balanced brackets, no operator at depth 0 and no
\* pair of brackets around it
AtomicShape(s) ==
    /\ s # <<>>
    /\ DepthAt(s, Len(s)) = 0
    /\ Depth0(s, PlusMinus \cup MulDiv) = {}
    /\ ~(s[1] = "(" /\ s[Len(s)] = ")")

T_UnregisteredCall == <<"f", "o", "o", "(", "1", ")">>

C10_MalformedLiteralRejected ==
    LET s == Stripped(text)
    IN  /\ Parsed /\ AtomicShape(s) /\ ~IsNumericLiteral(s)
             /\ (\E k \in 1..(Len(s) - 1) : IsNumericLiteral(SubSeq(s, 1, k)))
           => lastParse # Success /\ base = Null
        /\ Parsed /\ text = T_TwoBracketGroups =>
              lastParse # Success /\ base = Null

\* the text without its whitespace characters
WithoutWhitespace(s) == SelectSeq(s, LAMBDA c : c \notin Whitespace)

T_SpacedQuotient ==
    <<"1", " ", "+", " ", "1", " ", "/", " ", "(", "x", " ", "+", " ", "y",
      ")">>
T_Quotient == <<"1", "+", "1", "/", "(", "x", "+", "y", ")">>
T_xTabPlus1 == <<"x", TAB, "+", "1">>

\* C11 (as stated): Parse of a text returns the status and builds the tree
\* that Parse of the text without its whitespace characters does, wherever
\* the whitespace is (also inside numbers and identifiers).
C11_WhitespaceInsensitive ==
    Parsed =>
        LET r == ParseResult(WithoutWhitespace(text), symbols, functions,
                             NUL, NUL)
        IN  lastParse = r.status /\ base = r.base

\* C11 (amended): Parse of a text returns the status and builds the tree
\* that Parse of the text without its blanks (' ') does, wherever the
\* blanks are (also inside numbers and identifiers); "1 + 1 / (x + y)"
\* parses exactly like "1+1/(x+y)".
C11_BlankInsensitive ==
    /\ Parsed =>
          LET r == ParseResult(Stripped(text), symbols, functions, NUL, NUL)
          IN  lastParse = r.status /\ base = r.base
    /\ Parsed /\ text = T_SpacedQuotient =>
          /\ lastParse = Success
          /\ base = TreeOf(T_Quotient)

\* "1 + 1 / (x + y)" was parsed into the sum that "1+1/(x+y)" gives
C11_Witness ==
    /\ text = T_SpacedQuotient
    /\ ret.op = "Parse"
    /\ lastParse = Success
    /\ base = OperatorNode("Add", ConstantNode(FromInt(1)),
                  OperatorNode("Div", ConstantNode(FromInt(1)),
                      OperatorNode("Add", Var(x), Var(y))))

\* the split of a text without blanks: where FindOperator stops on the
\* whole of it
SplitOf(s) ==
    FindOperator(Context(s, NUL, NUL, symbols, functions), 1, Len(s) + 1)

\* s is split at an operator that has characters on its left
SplitWithLeft(s) ==
    SplitOf(s).depth = 0 /\ SplitOf(s).symbol # NUL /\ SplitOf(s).it > 1

\* what Parse gives for the characters left and right of the split of s
LeftOf(s) ==
    ParseResult(SubSeq(s, 1, SplitOf(s).it - 1), symbols, functions, NUL, NUL)
RightOf(s) ==
    ParseResult(SubSeq(s, SplitOf(s).it + 1, Len(s)), symbols, functions,
                NUL, NUL)

T_UnregisteredCallPlusU == <<"f", "o", "o", "(", "1", ")", "+", "u">>
T_UPlusUnregisteredCall == <<"u", "+", "f", "o", "o", "(", "1", ")">>

\* C12: for a text split at an operator with a non-empty left side, the
\* status of Parse is the failure of the right side if the right side
\* fails, else the failure of the left side if the left side fails, else
\* Success; the Operator node over both sides is built only if both succeed.
\* With foo and u unregistered, "foo(1)+u" yields Error_Syntax_Error and
\* "u+foo(1)" yields Error_Unregistered_Symbol.
C12_LastFailureWins ==
    LET s == Stripped(text)
    IN  /\ Parsed /\ SplitWithLeft(s) =>
              /\ lastParse = IF RightOf(s).status # Success
                             THEN RightOf(s).status
                             ELSE LeftOf(s).status
              /\ base = IF LeftOf(s).status = Success
                           /\ RightOf(s).status = Success
                        THEN OperatorNode(OperatorOf(SplitOf(s).symbol),
                                          LeftOf(s).base, RightOf(s).base)
                        ELSE Null
        /\ Parsed /\ text = T_UnregisteredCallPlusU =>
              lastParse = Error_Syntax_Error
        /\ Parsed /\ text = T_UPlusUnregisteredCall =>
              lastParse = Error_Unregistered_Symbol

\* "foo(1)+u": the left side fails with Error_Unregistered_Symbol, the right
\* side with Error_Syntax_Error, and Parse returned the latter
C12_Witness ==
    /\ text = T_UnregisteredCallPlusU
    /\ ret.op = "Parse"
    /\ LeftOf(text).status = Error_Unregistered_Symbol
    /\ RightOf(text).status = Error_Syntax_Error
    /\ lastParse = Error_Syntax_Error

\* s is split at an operator that is its first character
SplitWithoutLeft(s) ==
    SplitOf(s).depth = 0 /\ SplitOf(s).symbol # NUL /\ SplitOf(s).it = 1

T_MinusBracketDivZ == <<"-", "(", "2", "*", "x", "+", "y", ")", "/", "z">>
T_MinusXPlusY == <<"-", "x", "+", "y">>
T_PlusUnregisteredCall == <<"+", "u", "(", ")">>

\* C13: for a text split at an operator that is its first character: if the
\* operator is '-', Parse returns what the whole remainder of the text
\* returns and builds Sub(Constant(0), tree of the remainder), so
\* "-(2*x+y)/z" with x=3, y=4, z=2 evaluates to -5 and "-x+y" to -(x+y);
\* if it is '+', '*' or '/', Parse returns Error_Syntax_Error, also when the
\* remainder on its own fails with another status.
C13_EmptyLeftOperand ==
    LET s == Stripped(text)
    IN  /\ Parsed /\ SplitWithoutLeft(s) =>
              IF SplitOf(s).symbol = "-"
              THEN /\ lastParse = RightOf(s).status
                   /\ base = IF RightOf(s).status = Success
                             THEN OperatorNode("Sub", ConstantNode(Zero),
                                               RightOf(s).base)
                             ELSE Null
              ELSE lastParse = Error_Syntax_Error /\ base = Null
        /\ ret.op = "Eval" /\ text = T_MinusBracketDivZ =>
              ret.status = Success /\ ret.value = FromInt(-5)
        /\ ret.op = "Eval" /\ text = T_MinusXPlusY =>
              /\ ret.status = Success
              /\ ret.value = RSub(Zero, RAdd(cells[symbols[x]],
                                             cells[symbols[y]]))
        /\ Parsed /\ text = T_PlusUnregisteredCall =>
              /\ RightOf(text).status = Error_Unregistered_Symbol
              /\ lastParse = Error_Syntax_Error

\* "-(2*x+y)/z" was parsed into 0 - ((2*x+y)/z) and evaluated to -5
C13_Witness ==
    /\ text = T_MinusBracketDivZ
    /\ ret.op = "Eval"
    /\ ret.value = FromInt(-5)
    /\ base.kind = "Operator" /\ base.op = "Sub"
    /\ base.left = ConstantNode(Zero)
    /\ base.right.kind = "Operator" /\ base.right.op = "Div"

\* the value a tree has: every operator applied to the values of both its
\* operands, a quotient with divisor zero counting as 0
RECURSIVE ValueOf(_)
ValueOf(node) ==
    CASE node.kind = "Constant" -> node.value
      [] node.kind = "Variable" -> cells[node.cell]
      [] node.kind = "Function" -> ApplyFunction(node.fn, ValueOf(node.arg))
      [] node.kind = "Operator" ->
            CASE node.op = "Add" ->
                    RAdd(ValueOf(node.left), ValueOf(node.right))
              [] node.op = "Sub" ->
                    RSub(ValueOf(node.left), ValueOf(node.right))
              [] node.op = "Mul" ->
                    RMul(ValueOf(node.left), ValueOf(node.right))
              [] node.op = "Div" ->
                    IF ValueOf(node.right) = Zero THEN Zero
                    ELSE RDiv(ValueOf(node.left), ValueOf(node.right))

\* the tree holds a Div node whose right operand has the value zero
RECURSIVE HasZeroDivision(_)
HasZeroDivision(node) ==
    CASE node.kind = "Operator" ->
            \/ node.op = "Div" /\ ValueOf(node.right) = Zero
            \/ HasZeroDivision(node.left)
            \/ HasZeroDivision(node.right)
      [] node.kind = "Function" -> HasZeroDivision(node.arg)
      [] OTHER -> FALSE

T_ZeroDivisionPlus5 == <<"1", "/", "0", "+", "5">>
T_5PlusZeroDivision == <<"5", "+", "1", "/", "0">>
T_ZeroDivisionInArgument == <<"f", "(", "1", "/", "0", ")">>
T_ZeroDivisionByVariable == <<"1", "/", "(", "x", "-", "3", ")">>

\* C14: Eval on a compiled tree returns Error_Division_By_Zero if and only
\* if a Div node of the tree has a right operand of value zero, wherever
\* the node is (left subtree, right subtree, function argument), and
\* Success otherwise; the value returned is still every operator applied to
\* both its operands, so "1/0+5" returns 5 with Error_Division_By_Zero.
C14_DivisionByZeroIffZeroDivisor ==
    /\ ret.op = "Eval" /\ base # Null =>
          /\ ret.status = IF HasZeroDivision(base)
                          THEN Error_Division_By_Zero ELSE Success
          /\ ret.value = ValueOf(base)
    /\ ret.op = "Eval" /\ text = T_ZeroDivisionPlus5 =>
          ret.status = Error_Division_By_Zero /\ ret.value = FromInt(5)
    /\ ret.op = "Eval" /\ text \in {T_5PlusZeroDivision,
                                    T_ZeroDivisionInArgument,
                                    T_ZeroDivisionByVariable} =>
          ret.status = Error_Division_By_Zero

\* "1/0+5" was evaluated to 5 with Error_Division_By_Zero: the division by
\* zero is in the left operand of the sum, evaluated before the right one
C14_Witness ==
    /\ text = T_ZeroDivisionPlus5
    /\ ret.op = "Eval"
    /\ base.kind = "Operator" /\ base.op = "Add"
    /\ HasZeroDivision(base.left)
    /\ ret.status = Error_Division_By_Zero
    /\ ret.value = FromInt(5)

\* a node all of whose children, and their children, are there
RECURSIVE WellFormed(_)
WellFormed(node) ==
    CASE node.kind = "Constant" -> TRUE
      [] node.kind = "Variable" -> TRUE
      [] node.kind = "Operator" ->
            WellFormed(node.left) /\ WellFormed(node.right)
      [] node.kind = "Function" -> WellFormed(node.arg)
      [] OTHER -> FALSE

\* the statuses a call of ParseSubString can be entered with
EntryStatuses == {Success, Error_Syntax_Error}

T_CallOfSum == <<"f", "(", "x", "+", "1", ")">>

\* C15: a call of ParseSubString on any span of the text, entered with any
\* status, returns no node only together with a status other than Success,
\* and returns an Operator or FunctionCall node only with every child
\* linked; so after a Parse that returned Success the tree has a root,
\* every Operator node both its children and every FunctionCall node its
\* argument, and the evaluation meets no missing child.
C15_NoMissingChild ==
    /\ ret.op = "Parse" =>
          LET removed == RemoveSpaces(text)
          IN  \A before \in BeforeChars, after \in AfterChars :
              \A begin \in 1..removed.new_end :
              \A end \in begin..removed.new_end :
              \A status \in EntryStatuses :
                  LET ctx == Context(removed.buf, before, after,
                                     symbols, functions)
                      r   == ParseSubString(ctx, begin, end, status)
                  IN  /\ r.node = Null => r.status # Success
                      /\ r.node # Null => WellFormed(r.node)
    /\ lastParse = Success => base # Null /\ WellFormed(base)
    /\ ret.op = "Eval" /\ ret.status # Error_Not_Compiled =>
          WellFormed(base)

\* "f(x+1)" was parsed into a FunctionCall over an Operator node with two
\* leaves and evaluated
C15_Witness ==
    /\ text = T_CallOfSum
    /\ ret.op = "Eval"
    /\ ret.status = Success
    /\ base = FunctionNode("inc",
                  OperatorNode("Add", Var(x), ConstantNode(FromInt(1))))

\* the calls of ParseSubString made by Parse of the text, with the reads
\* outside the buffer yielding before and after
CallsOfParse(before, after) ==
    LET removed == RemoveSpaces(text)
        ctx     == Context(removed.buf, before, after, symbols, functions)
    IN  {[ctx |-> ctx, begin |-> c[1], end |-> c[2]] :
            c \in Calls(ctx, 1, removed.new_end)}

\* C16: during Parse of any text, every character a call of ParseSubString
\* inspects lies at a position of the span [begin, end) the call was given;
\* a call on an empty span (the text "", the right operand of "1+", the
\* argument of "f()") inspects no character.
C16_ReadsInsideSpan ==
    Parsed =>
        \A before \in BeforeChars, after \in AfterChars :
        \A c \in CallsOfParse(before, after) :
            Inspected(c.ctx, c.begin, c.end) \subseteq c.begin..(c.end - 1)

\* every character a call of ParseSubString on a span that is not empty
\* inspects lies inside the span
ReadsInsideNonEmptySpan ==
    Parsed =>
        \A before \in BeforeChars, after \in AfterChars :
        \A c \in CallsOfParse(before, after) :
            c.begin < c.end =>
                Inspected(c.ctx, c.begin, c.end)
                    \subseteq c.begin..(c.end - 1)

====
